---- MODULE Spec2Model ----
(***************************************************************************)
(* A model of statime's in-memory network test double                      *)
(* (statime/src/network/test.rs) and of the Linux socket factory and       *)
(* timestamp adapter (statime-linux/src/socket.rs).                        *)
(*                                                                         *)
(* Three independent state machines share the module:                      *)
(*   Spec / SpecFill  the test double (TestRuntime, TestRuntimePort)       *)
(*   SpecSock         the six socket-opening functions                     *)
(*   SpecTime         timestamp_to_time                                    *)
(***************************************************************************)
EXTENDS Integers, Sequences, FiniteSets, TLC

(***************************************************************************)
(* Bounds of the exploration (not program constants).                      *)
(***************************************************************************)
\* ports opened on the runtime
MaxPorts == 2
\* opens and completed sends together (get_sent only undoes a send)
MaxOps == 4
\* get_sent calls that return a record, in the fill-up exploration
MaxFillPops == 2

(***************************************************************************)
(* Program constants.                                                      *)
(***************************************************************************)
\* ArrayVec<u8, 255>: capacity of a captured payload
DATA_CAP == 255
\* ArrayVec<TestNetworkPacket, 255>: capacity of the capture log
PACKET_BUFFER_CAP == 255

(***************************************************************************)
(* Inputs.                                                                 *)
(***************************************************************************)
Interfaces == {"eth0", "eth1"}

\* a payload of n bytes
Bytes(n) == [i \in 1..n |-> i % 256]

\* "A", "B", the longest payload that fits, the shortest that does not
Payloads == {<<65>>, <<66>>, Bytes(DATA_CAP), Bytes(DATA_CAP + 1)}

(***************************************************************************)
(* State of the test double.                                               *)
(*   heap           the Rc<RefCell<TestRuntimeData>> allocations, by handle*)
(*   ports          the TestRuntimePort values opened so far               *)
(*   ret            the last call: its arguments and what it returned (or  *)
(*                  that it panicked)                                      *)
(*   panicked       the thread of the test driver has panicked: a panic    *)
(*                  unwinds the caller, so no further call is made; the    *)
(*                  state is kept as the panic left it                     *)
(* Observers (not program state):                                          *)
(*   origin         for each record of the runtime's log, the port that    *)
(*                  appended it                                            *)
(*   stats          completed sends and get_sent calls that returned a     *)
(*                  record; completed sends per port                       *)
(*   script         progress of the run along the two-port scenario        *)
(***************************************************************************)
VARIABLES heap, ports, ret, panicked, origin, stats, script

tdVars == <<heap, ports, ret, panicked, origin, stats, script>>

(***************************************************************************)
(* Option<T>: None is <<>>, Some(x) is <<x>>.                              *)
(***************************************************************************)
None == <<>>
Some(x) == <<x>>
IsSome(o) == Len(o) = 1

\* the record of a call: op on port (0: on the runtime) with the arguments
\* interface, time_critical and data, its outcome (ok or panic) and the value
\* it returned
Called(op, port, interface, time_critical, data, outcome, value) ==
  [op |-> op, port |-> port, interface |-> interface,
   time_critical |-> time_critical, data |-> data,
   outcome |-> outcome, value |-> value]

\* TestRuntime { data }: the runtime owns allocation 1
TestRuntime == [data |-> 1]

\* the runtime's capture log
packet_buffer == heap[TestRuntime.data].packet_buffer

\* TestNetworkPacket
TestNetworkPacket(data, interface, time_critical, index) ==
  [data |-> data, interface |-> interface,
   time_critical |-> time_critical, index |-> index]

\* a port whose counter starts at 1 (a mutation of TestRuntimePort)
TestRuntimePortFromOne(data, interface, time_critical) ==
  [data |-> data, interface |-> interface,
   time_critical |-> time_critical, send_index |-> 1]

\* the TestRuntimePort built by open
TestRuntimePort(data, interface, time_critical) ==
  [data |-> data, interface |-> interface,
   time_critical |-> time_critical, send_index |-> 0]

\* a pop that takes the oldest element (a mutation of ArrayVecPop)
ArrayVecPopFront(vec) ==
  IF vec = <<>>
    THEN [value |-> None, vec |-> vec]
    ELSE [value |-> Some(vec[1]), vec |-> SubSeq(vec, 2, Len(vec))]

\* ArrayVec::pop: the last element, if any, and the rest
ArrayVecPop(vec) ==
  IF vec = <<>>
    THEN [value |-> None, vec |-> vec]
    ELSE [value |-> Some(vec[Len(vec)]), vec |-> SubSeq(vec, 1, Len(vec) - 1)]

\* a capacity check that lets one item too many in (a mutation of
\* ArrayVecIsFull)
ArrayVecIsFullOffByOne(len, cap) == len > cap

\* ArrayVec::push panics when the vector, holding len items, is full
ArrayVecIsFull(len, cap) == len >= cap

\* the loop of send that copies the payload: item i is pushed onto the
\* i - 1 items pushed before it, and the push panics when data_array is
\* full; without a panic data_array ends as the items of data, in order
CopyPayload(data) ==
  IF \E i \in 1..Len(data) : ArrayVecIsFull(i - 1, DATA_CAP)
    THEN [panic |-> TRUE, data_array |-> <<>>]
    ELSE [panic |-> FALSE, data_array |-> [i \in 1..Len(data) |-> data[i]]]

\* a counter that is never incremented (a mutation of NextSendIndex)
NextSendIndexStuck(send_index) == send_index

\* self.send_index += 1 (a usize: the bounds keep it far from its overflow)
NextSendIndex(send_index) == send_index + 1

\* the value send returns
SendResult(time_critical, index) ==
  IF time_critical THEN Some(index) ELSE None

(***************************************************************************)
(* The scenario observer: script = k when the calls so far are exactly the *)
(* first k calls of                                                        *)
(*   open(_, TRUE); open(_, FALSE); send on port 1; send on port 2;        *)
(*   get_sent; get_sent; get_sent                                          *)
(* and OffScript once the run has left the scenario.                       *)
(***************************************************************************)
OffScript == 0 - 1

\* op: the call made; arg: 1 or 0 for open's time_critical, the port for send
ScriptStep(op, arg) ==
  IF script = OffScript THEN OffScript
  ELSE IF script = 0 /\ op = "open" /\ arg = 1 THEN 1
  ELSE IF script = 1 /\ op = "open" /\ arg = 0 THEN 2
  ELSE IF script = 2 /\ op = "send" /\ arg = 1 THEN 3
  ELSE IF script = 3 /\ op = "send" /\ arg = 2 THEN 4
  ELSE IF script \in 4..6 /\ op = "get_sent" THEN script + 1
  ELSE OffScript

(***************************************************************************)
(* Init: a default TestRuntime, no port opened.                            *)
(***************************************************************************)
TestDoubleInit ==
  /\ heap = <<[packet_buffer |-> <<>>]>>
  /\ ports = <<>>
  /\ ret = Called("default", 0, "", FALSE, <<>>, "ok", None)
  /\ panicked = FALSE
  /\ origin = <<>>
  /\ stats = [sends |-> 0, pops |-> 0, by_port |-> <<>>]
  /\ script = 0

\* opens and completed sends so far
Ops == Len(ports) + stats.sends

(***************************************************************************)
(* TestRuntime::open                                                       *)
(***************************************************************************)
open(interface, time_critical) ==
  LET port == TestRuntimePort(TestRuntime.data, interface, time_critical) IN
  /\ ~panicked
  /\ ports' = Append(ports, port)
  /\ ret' = Called("open", Len(ports) + 1, interface, time_critical, <<>>,
                   "ok", Some(port))
  /\ stats' = [stats EXCEPT !.by_port = Append(@, 0)]
  /\ script' = ScriptStep("open", IF time_critical THEN 1 ELSE 0)
  /\ UNCHANGED <<heap, panicked, origin>>

\* a send whose counter is shared by all ports: every port's send_index is
\* incremented (a mutation of send)
send_with_shared_counter(p, data) ==
  LET self == ports[p]
      buffer == heap[self.data].packet_buffer
      packet == TestNetworkPacket(CopyPayload(data).data_array,
                                  self.interface, self.time_critical,
                                  self.send_index)
  IN
  /\ ~panicked
  /\ ~CopyPayload(data).panic
  /\ ~ArrayVecIsFull(Len(buffer), PACKET_BUFFER_CAP)
  /\ script' = ScriptStep("send", p)
  /\ ports' = [q \in 1..Len(ports) |->
                 [ports[q] EXCEPT !.send_index = NextSendIndex(@)]]
  /\ heap' = [heap EXCEPT ![self.data].packet_buffer = Append(@, packet)]
  /\ origin' = Append(origin, p)
  /\ ret' = Called("send", p, "", FALSE, data, "ok",
                   SendResult(self.time_critical, self.send_index))
  /\ stats' = [stats EXCEPT !.sends = @ + 1, !.by_port[p] = @ + 1]
  /\ UNCHANGED panicked

(***************************************************************************)
(* TestRuntimePort::send on port p                                         *)
(***************************************************************************)
send(p, data) ==
  LET self == ports[p]
      index == self.send_index
      copy == CopyPayload(data)
      buffer == heap[self.data].packet_buffer
      packet == TestNetworkPacket(copy.data_array, self.interface,
                                  self.time_critical, index)
  IN
  /\ ~panicked
  /\ script' = ScriptStep("send", p)
  /\ IF copy.panic
       THEN \* data_array.push panics: nothing has been written yet
         /\ panicked' = TRUE
         /\ ret' = Called("send", p, "", FALSE, data, "panic", None)
         /\ UNCHANGED <<heap, ports, origin, stats>>
       ELSE IF ArrayVecIsFull(Len(buffer), PACKET_BUFFER_CAP)
         THEN \* packet_buffer.push panics after send_index was incremented
           /\ panicked' = TRUE
           /\ ports' = [ports EXCEPT ![p].send_index = NextSendIndex(@)]
           /\ ret' = Called("send", p, "", FALSE, data, "panic", None)
           /\ UNCHANGED <<heap, origin, stats>>
         ELSE
           /\ ports' = [ports EXCEPT ![p].send_index = NextSendIndex(@)]
           /\ heap' = [heap EXCEPT ![self.data].packet_buffer =
                                      Append(@, packet)]
           /\ origin' = Append(origin, p)
           /\ ret' = Called("send", p, "", FALSE, data, "ok",
                         SendResult(self.time_critical, index))
           /\ stats' = [stats EXCEPT !.sends = @ + 1, !.by_port[p] = @ + 1]
           /\ UNCHANGED panicked

\* a get_sent that gives the popped record's index back to the port that
\* appended it (a mutation of get_sent)
get_sent_rewinding ==
  LET popped == ArrayVecPop(heap[TestRuntime.data].packet_buffer) IN
  /\ ~panicked
  /\ heap' = [heap EXCEPT ![TestRuntime.data].packet_buffer = popped.vec]
  /\ origin' = SubSeq(origin, 1, Len(popped.vec))
  /\ ret' = Called("get_sent", 0, "", FALSE, <<>>, "ok", popped.value)
  /\ stats' = [stats EXCEPT !.pops = @ + Len(popped.value)]
  /\ script' = ScriptStep("get_sent", 0)
  /\ ports' = IF origin = <<>> THEN ports
              ELSE [ports EXCEPT ![origin[Len(origin)]].send_index = @ - 1]
  /\ UNCHANGED panicked

(***************************************************************************)
(* TestRuntime::get_sent                                                   *)
(***************************************************************************)
get_sent ==
  LET popped == ArrayVecPop(heap[TestRuntime.data].packet_buffer) IN
  /\ ~panicked
  /\ heap' = [heap EXCEPT ![TestRuntime.data].packet_buffer = popped.vec]
  /\ origin' = SubSeq(origin, 1, Len(popped.vec))
  /\ ret' = Called("get_sent", 0, "", FALSE, <<>>, "ok", popped.value)
  /\ stats' = [stats EXCEPT !.pops = @ + Len(popped.value)]
  /\ script' = ScriptStep("get_sent", 0)
  /\ UNCHANGED <<ports, panicked>>

\* a recv that returns nothing and changes nothing (a mutation of recv)
recv_silent_noop ==
  /\ ~panicked
  /\ ret' = Called("recv", 0, "", FALSE, <<>>, "ok", None)
  /\ script' = ScriptStep("recv", 0)
  /\ UNCHANGED <<heap, ports, origin, stats, panicked>>

(***************************************************************************)
(* TestRuntime::recv: todo!()                                              *)
(***************************************************************************)
recv ==
  /\ ~panicked
  /\ panicked' = TRUE
  /\ ret' = Called("recv", 0, "", FALSE, <<>>, "panic", None)
  /\ script' = ScriptStep("recv", 0)
  /\ UNCHANGED <<heap, ports, origin, stats>>

(***************************************************************************)
(* The test double's next-state relations.                                 *)
(*   Next      every operation, on up to MaxPorts ports, up to MaxOps      *)
(*             opens and completed sends                                   *)
(*   NextFill  one port sending "A" until the log is full, get_sent only   *)
(*             near the top                                                *)
(*   NextCap   NextFill with the long payloads too, near the top           *)
(***************************************************************************)
Open == \E interface \in Interfaces, time_critical \in BOOLEAN :
          /\ Len(ports) < MaxPorts
          /\ Ops < MaxOps
          /\ open(interface, time_critical)

Send == \E p \in 1..Len(ports), data \in Payloads :
          /\ Ops < MaxOps
          /\ send(p, data)

GetSent == get_sent

Recv == recv

FillOpen == \E time_critical \in BOOLEAN :
              /\ ports = <<>>
              /\ open("eth0", time_critical)

FillSend == /\ ports # <<>>
            /\ send(1, <<65>>)

\* a send on the one port of the filling run: "A", or near the top of the
\* log one of the long payloads too
CapSend == /\ ports # <<>>
           /\ \E data \in Payloads \ {<<66>>} :
                /\ Len(data) = 1 \/ Len(packet_buffer) >= PACKET_BUFFER_CAP - 2
                /\ send(1, data)

FillGetSent == /\ Len(packet_buffer) >= PACKET_BUFFER_CAP - 1
               /\ stats.pops < MaxFillPops
               /\ get_sent

(***************************************************************************)
(* The socket factory (statime-linux/src/socket.rs).                       *)
(***************************************************************************)
\* bound of the exploration: calls of socket-opening functions
MaxCalls == 2

IPV6_PRIMARY_MULTICAST == <<65294, 0, 0, 0, 0, 0, 0, 385>>
IPV6_PDELAY_MULTICAST == <<65282, 0, 0, 0, 0, 0, 0, 107>>

IPV4_PRIMARY_MULTICAST == <<224, 0, 1, 129>>
IPV4_PDELAY_MULTICAST == <<224, 0, 0, 107>>

EVENT_PORT == 319
GENERAL_PORT == 320

\* 0x88f7
PTP_ETHERTYPE == 35063

SocketAddrV4(ip, port) == [ip |-> ip, port |-> port]
SocketAddrV6(ip, port, flowinfo, scope_id) ==
  [ip |-> ip, port |-> port, flowinfo |-> flowinfo, scope_id |-> scope_id]
EthernetAddress(protocol, mac, if_index) ==
  [protocol |-> protocol, mac |-> mac, if_index |-> if_index]

\* impl PtpTargetAddress for SocketAddrV4
V4_PRIMARY_EVENT == SocketAddrV4(IPV4_PRIMARY_MULTICAST, EVENT_PORT)
V4_PRIMARY_GENERAL == SocketAddrV4(IPV4_PRIMARY_MULTICAST, GENERAL_PORT)
V4_PDELAY_EVENT == SocketAddrV4(IPV4_PDELAY_MULTICAST, EVENT_PORT)
V4_PDELAY_GENERAL == SocketAddrV4(IPV4_PDELAY_MULTICAST, GENERAL_PORT)

\* impl PtpTargetAddress for SocketAddrV6
V6_PRIMARY_EVENT == SocketAddrV6(IPV6_PRIMARY_MULTICAST, EVENT_PORT, 0, 0)
V6_PRIMARY_GENERAL == SocketAddrV6(IPV6_PRIMARY_MULTICAST, GENERAL_PORT, 0, 0)
V6_PDELAY_EVENT == SocketAddrV6(IPV6_PDELAY_MULTICAST, EVENT_PORT, 0, 0)
\* a pdelay-general address on the event port (a mutation of
\* V6_PDELAY_GENERAL)
V6_PDELAY_GENERAL_on_event_port ==
  SocketAddrV6(IPV6_PDELAY_MULTICAST, EVENT_PORT, 0, 0)

V6_PDELAY_GENERAL == SocketAddrV6(IPV6_PDELAY_MULTICAST, GENERAL_PORT, 0, 0)

\* impl PtpTargetAddress for Ieee1588EthernetAddresses
Ieee1588_PRIMARY_EVENT ==
  EthernetAddress(PTP_ETHERTYPE, <<1, 27, 25, 0, 0, 0>>, 0)
Ieee1588_PRIMARY_GENERAL == Ieee1588_PRIMARY_EVENT
Ieee1588_PDELAY_EVENT ==
  EthernetAddress(PTP_ETHERTYPE, <<1, 128, 194, 0, 0, 14>>, 0)
\* a pdelay-general address copied from the primary pair (a mutation of
\* Ieee1588_PDELAY_GENERAL)
Ieee1588_PDELAY_GENERAL_from_primary == Ieee1588_PRIMARY_EVENT

Ieee1588_PDELAY_GENERAL == Ieee1588_PDELAY_EVENT

\* a gPTP primary address that was given the 1588 primary MAC (a mutation
\* of Gptp_PRIMARY_EVENT)
Gptp_PRIMARY_EVENT_with_1588_mac ==
  EthernetAddress(PTP_ETHERTYPE, <<1, 27, 25, 0, 0, 0>>, 0)

\* impl PtpTargetAddress for GptpEthernetAddresses
Gptp_PRIMARY_EVENT ==
  EthernetAddress(PTP_ETHERTYPE, <<1, 128, 194, 0, 0, 14>>, 0)
Gptp_PRIMARY_GENERAL == Gptp_PRIMARY_EVENT
Gptp_PDELAY_EVENT == Gptp_PRIMARY_EVENT
Gptp_PDELAY_GENERAL == Gptp_PRIMARY_EVENT

\* InterfaceTimestampMode, as far as this layer passes it on
TimestampModes == {"None", "SoftwareAll", "HardwareAll"}

(***************************************************************************)
(* Each socket-opening function is its body: the open step (which          *)
(* collaborator function it calls, with which port or ethertype and which  *)
(* timestamp mode) followed by its join_multicast calls, in order. Every   *)
(* step ends in `?`.                                                       *)
(***************************************************************************)
open_ipv4_event_socket(timestamping) ==
  [via |-> "open_interface_udp4", bound |-> EVENT_PORT, mode |-> timestamping,
   joins |-> << SocketAddrV4(IPV4_PRIMARY_MULTICAST, 0),
                SocketAddrV4(IPV4_PDELAY_MULTICAST, 0) >>]

\* a general socket that forgets the pdelay group (a mutation of
\* open_ipv4_general_socket)
open_ipv4_general_socket_primary_only ==
  [via |-> "open_interface_udp4", bound |-> GENERAL_PORT, mode |-> "None",
   joins |-> << SocketAddrV4(IPV4_PRIMARY_MULTICAST, 0) >>]

open_ipv4_general_socket ==
  [via |-> "open_interface_udp4", bound |-> GENERAL_PORT, mode |-> "None",
   joins |-> << SocketAddrV4(IPV4_PRIMARY_MULTICAST, 0),
                SocketAddrV4(IPV4_PDELAY_MULTICAST, 0) >>]

open_ipv6_event_socket(timestamping) ==
  [via |-> "open_interface_udp6", bound |-> EVENT_PORT, mode |-> timestamping,
   joins |-> << SocketAddrV6(IPV6_PRIMARY_MULTICAST, 0, 0, 0),
                SocketAddrV6(IPV6_PDELAY_MULTICAST, 0, 0, 0) >>]

\* a general socket that asks for software timestamps (a mutation of
\* open_ipv6_general_socket)
open_ipv6_general_socket_timestamped ==
  [via |-> "open_interface_udp6", bound |-> GENERAL_PORT,
   mode |-> "SoftwareAll",
   joins |-> << SocketAddrV6(IPV6_PRIMARY_MULTICAST, 0, 0, 0),
                SocketAddrV6(IPV6_PDELAY_MULTICAST, 0, 0, 0) >>]

open_ipv6_general_socket ==
  [via |-> "open_interface_udp6", bound |-> GENERAL_PORT, mode |-> "None",
   joins |-> << SocketAddrV6(IPV6_PRIMARY_MULTICAST, 0, 0, 0),
                SocketAddrV6(IPV6_PDELAY_MULTICAST, 0, 0, 0) >>]

open_ethernet_socket(timestamping) ==
  [via |-> "open_interface_ethernet", bound |-> PTP_ETHERTYPE,
   mode |-> timestamping,
   joins |-> << Ieee1588_PRIMARY_EVENT, Ieee1588_PDELAY_EVENT >>]

open_gptp_socket(timestamping) ==
  [via |-> "open_interface_ethernet", bound |-> PTP_ETHERTYPE,
   mode |-> timestamping,
   joins |-> << Gptp_PRIMARY_EVENT >>]

SocketFunctions ==
  {"open_ipv4_event_socket", "open_ipv4_general_socket",
   "open_ipv6_event_socket", "open_ipv6_general_socket",
   "open_ethernet_socket", "open_gptp_socket"}

\* the general sockets take no timestamping argument
TakesTimestamping(fn) ==
  fn \notin {"open_ipv4_general_socket", "open_ipv6_general_socket"}

\* the body of function fn called with timestamping
Body(fn, timestamping) ==
  CASE fn = "open_ipv4_event_socket" -> open_ipv4_event_socket(timestamping)
    [] fn = "open_ipv4_general_socket" -> open_ipv4_general_socket
    [] fn = "open_ipv6_event_socket" -> open_ipv6_event_socket(timestamping)
    [] fn = "open_ipv6_general_socket" -> open_ipv6_general_socket
    [] fn = "open_ethernet_socket" -> open_ethernet_socket(timestamping)
    [] fn = "open_gptp_socket" -> open_gptp_socket(timestamping)

(***************************************************************************)
(* State of the socket factory.                                            *)
(*   call      the running call: function, arguments, position in the body *)
(*   socket    the local `socket` of the running call (a kernel handle)    *)
(*   kernel    the sockets the operating system holds, one entry per call: *)
(*             absent (the open step failed), open, or closed              *)
(*   attempts  the collaborator calls the running or last call made, with  *)
(*             their outcomes                                              *)
(*   result    what the last call returned                                 *)
(***************************************************************************)
VARIABLES call, socket, kernel, attempts, result

sockVars == <<call, socket, kernel, attempts, result>>

Idle == [fn |-> "", interface |-> "", timestamping |-> "", pc |-> "idle",
         next |-> 0]

NoResult == [status |-> "none", error |-> <<"", 0>>, socket |-> 0]

SockInit ==
  /\ call = Idle
  /\ socket = None
  /\ kernel = <<>>
  /\ attempts = <<>>
  /\ result = NoResult

\* the socket a successful open_interface_* call creates; by: the function
\* whose call created it
OpenedSocket(by, body, interface) ==
  [state |-> "open", by |-> by, via |-> body.via, bound |-> body.bound,
   mode |-> body.mode, interface |-> interface, groups |-> {}]

\* the entry of a call that has created no socket (yet)
AbsentSocket(by) ==
  [state |-> "absent", by |-> by, via |-> "", bound |-> 0, mode |-> "",
   interface |-> "", groups |-> {}]

\* socket.join_multicast(addr, interface) succeeded
Joined(sock, addr, interface) ==
  [sock EXCEPT !.groups = @ \cup {[addr |-> addr, interface |-> interface]}]

\* a socket that stays open when its owner goes away (a mutation of
\* DropSocket)
LeakSocket(sock) == sock

\* the local `socket` goes out of scope: the socket is closed, and with it
\* its group memberships end
DropSocket(sock) == [sock EXCEPT !.state = "closed", !.groups = {}]

\* a join whose error is ignored (a mutation of AfterJoin)
AfterJoinIgnoringError(ok, k, n) ==
  IF k < n THEN "next_join" ELSE "return_ok"

\* `?` applied to the result of join k of n: the error returns at once,
\* success goes on to the next statement, Ok(socket) after the last join
AfterJoin(ok, k, n) ==
  IF ~ok THEN "return_err"
  ELSE IF k < n THEN "next_join"
  ELSE "return_ok"

\* an open step whose error is not propagated (a mutation of AfterOpen)
AfterOpenIgnoringError(ok, n) ==
  IF n > 0 THEN "next_join" ELSE "return_ok"

\* `?` applied to the result of the open step
AfterOpen(ok, n) ==
  IF ~ok THEN "return_err"
  ELSE IF n > 0 THEN "next_join"
  ELSE "return_ok"

(***************************************************************************)
(* A caller calls one of the six functions.                                *)
(***************************************************************************)
CallSocketFunction(fn, interface, timestamping) ==
  /\ call.pc = "idle"
  /\ Len(kernel) < MaxCalls
  /\ TakesTimestamping(fn) \/ timestamping = "None"
  /\ call' = [fn |-> fn, interface |-> interface,
              timestamping |-> timestamping, pc |-> "open", next |-> 1]
  /\ socket' = None
  /\ kernel' = Append(kernel, AbsentSocket(fn))
  /\ attempts' = <<>>
  /\ result' = NoResult

(***************************************************************************)
(* let socket = open_interface_*(interface, bound, mode)?;                 *)
(* The collaborator succeeds or fails (ok).                                *)
(***************************************************************************)
OpenStep(ok) ==
  LET body == Body(call.fn, call.timestamping)
      id == Len(kernel)
      step == <<body.via, 0>>
      after == AfterOpen(ok, Len(body.joins))
  IN
  /\ call.pc = "open"
  /\ attempts' = Append(attempts, [step |-> step, ok |-> ok])
  /\ kernel' = IF ok THEN [kernel EXCEPT ![id] = OpenedSocket(call.fn, body,
                                                               call.interface)]
                     ELSE kernel
  /\ CASE after = "return_err" ->
            /\ result' = [status |-> "err", error |-> step, socket |-> 0]
            /\ socket' = None
            /\ call' = [call EXCEPT !.pc = "idle"]
       [] after = "next_join" ->
            /\ socket' = Some(id)
            /\ call' = [call EXCEPT !.pc = "join"]
            /\ UNCHANGED result
       [] after = "return_ok" ->
            /\ result' = [status |-> "ok", error |-> <<"", 0>>, socket |-> id]
            /\ socket' = None
            /\ call' = [call EXCEPT !.pc = "idle"]

(***************************************************************************)
(* socket.join_multicast(joins[next], interface)?;  and, after the last    *)
(* one, Ok(socket).                                                        *)
(***************************************************************************)
JoinStep(ok) ==
  LET body == Body(call.fn, call.timestamping)
      id == socket[1]
      k == call.next
      step == <<"join_multicast", k>>
      after == AfterJoin(ok, k, Len(body.joins))
      joined == IF ok THEN Joined(kernel[id], body.joins[k], call.interface)
                      ELSE kernel[id]
  IN
  /\ call.pc = "join"
  /\ attempts' = Append(attempts, [step |-> step, ok |-> ok])
  /\ CASE after = "return_err" ->
            /\ kernel' = [kernel EXCEPT ![id] = DropSocket(joined)]
            /\ result' = [status |-> "err", error |-> step, socket |-> 0]
            /\ socket' = None
            /\ call' = [call EXCEPT !.pc = "idle"]
       [] after = "next_join" ->
            /\ kernel' = [kernel EXCEPT ![id] = joined]
            /\ call' = [call EXCEPT !.next = k + 1]
            /\ UNCHANGED <<socket, result>>
       [] after = "return_ok" ->
            /\ kernel' = [kernel EXCEPT ![id] = joined]
            /\ result' = [status |-> "ok", error |-> <<"", 0>>, socket |-> id]
            /\ socket' = None
            /\ call' = [call EXCEPT !.pc = "idle"]

Call == \E fn \in SocketFunctions, interface \in Interfaces,
           timestamping \in TimestampModes :
          CallSocketFunction(fn, interface, timestamping)

OpenInterface == \E ok \in BOOLEAN : OpenStep(ok)

JoinMulticast == \E ok \in BOOLEAN : JoinStep(ok)

(***************************************************************************)
(* The timestamp adapter (statime-linux/src/socket.rs).                    *)
(*                                                                         *)
(* Integers wider than TLC's are little-endian sequences of bytes          *)
(* in two's complement: an i64 is 8 bytes, a u32 is 4, an i128 is 16.      *)
(***************************************************************************)
I64_BYTES == 8
U32_BYTES == 4
I128_BYTES == 16
\* 1_000_000_000i128
NANOS_PER_SECOND == 1000000000
\* the integer part of the internal time value: 96 bits, signed
TIME_INT_BYTES == 12

\* the bytes of a natural number x, n bytes wide
RECURSIVE FromNat(_, _)
FromNat(x, n) == IF n = 0 THEN <<>> ELSE <<x % 256>> \o FromNat(x \div 256, n - 1)

IsNegative(b) == b[Len(b)] >= 128

\* b widened to n bytes, the new bytes filled with fill
Extend(b, n, fill) == [i \in 1..n |-> IF i <= Len(b) THEN b[i] ELSE fill]

SignExtend(b, n) == Extend(b, n, IF IsNegative(b) THEN 255 ELSE 0)

ZeroExtend(b, n) == Extend(b, n, 0)

\* a + b modulo 2^(8 * Len(a)), from byte i on with a carry
RECURSIVE AddFrom(_, _, _, _)
AddFrom(a, b, i, carry) ==
  IF i > Len(a) THEN <<>>
  ELSE LET sum == a[i] + b[i] + carry
       IN <<sum % 256>> \o AddFrom(a, b, i + 1, sum \div 256)

WrappingAdd(a, b) == AddFrom(a, b, 1, 0)

\* the sum of a[i] * b[j] over i + j = k + 1, from i on
RECURSIVE ColumnSum(_, _, _, _)
ColumnSum(a, b, k, i) ==
  IF i > k THEN 0 ELSE a[i] * b[k + 1 - i] + ColumnSum(a, b, k, i + 1)

\* a * b modulo 2^(8 * Len(a)), from byte k on with a carry
RECURSIVE MulFrom(_, _, _, _)
MulFrom(a, b, k, carry) ==
  IF k > Len(a) THEN <<>>
  ELSE LET sum == ColumnSum(a, b, k, 1) + carry
       IN <<sum % 256>> \o MulFrom(a, b, k + 1, sum \div 256)

WrappingMul(a, b) == MulFrom(a, b, 1, 0)

\* seconds widened without their sign (a mutation of SecondsAsI128)
SecondsAsU128(seconds) == ZeroExtend(seconds, I128_BYTES)

\* ts.seconds as i128
SecondsAsI128(seconds) == SignExtend(seconds, I128_BYTES)

\* ts.nanos as i128
NanosAsI128(nanos) == ZeroExtend(nanos, I128_BYTES)

\* ts.seconds as i128 * 1_000_000_000i128 + ts.nanos as i128, as the
\* machine computes it when nothing checks for overflow
FixedNanos(timestamp) ==
  WrappingAdd(WrappingMul(SecondsAsI128(timestamp.seconds),
                          FromNat(NANOS_PER_SECOND, I128_BYTES)),
              NanosAsI128(timestamp.nanos))

\* the same sum in integers wide enough that it cannot wrap
WIDE_BYTES == I128_BYTES + I64_BYTES

ExactNanos(timestamp) ==
  WrappingAdd(WrappingMul(SignExtend(timestamp.seconds, WIDE_BYTES),
                          FromNat(NANOS_PER_SECOND, WIDE_BYTES)),
              ZeroExtend(timestamp.nanos, WIDE_BYTES))

\* the i128 arithmetic overflows: a build with overflow checks panics, one
\* without them goes on with the wrapped value
Overflows(timestamp) ==
  SignExtend(FixedNanos(timestamp), WIDE_BYTES) # ExactNanos(timestamp)

\* value, n bytes wide, is a number of a signed integer of m bytes
FitsSigned(value, m) ==
  \A i \in (m + 1)..Len(value) :
    value[i] = IF value[m] >= 128 THEN 255 ELSE 0

\* Time::from_fixed_nanos: the internal time value holding these nanoseconds,
\* or an overflow when they do not fit its integer part
Time_from_fixed_nanos(nanos) ==
  IF FitsSigned(nanos, TIME_INT_BYTES)
    THEN [outcome |-> "ok", inner |-> SubSeq(nanos, 1, TIME_INT_BYTES)]
    ELSE [outcome |-> "panic", inner |-> <<>>]

\* timestamp_to_time in a build with (checked) or without overflow checks
timestamp_to_time(timestamp, checked) ==
  IF checked /\ Overflows(timestamp)
    THEN [outcome |-> "panic", inner |-> <<>>]
    ELSE Time_from_fixed_nanos(FixedNanos(timestamp))

(***************************************************************************)
(* Device timestamps: seconds is an i64, nanos a u32.                      *)
(***************************************************************************)
I64_MAX == [i \in 1..I64_BYTES |-> IF i = I64_BYTES THEN 127 ELSE 255]
I64_MIN == [i \in 1..I64_BYTES |-> IF i = I64_BYTES THEN 128 ELSE 0]
\* -x as an i64, for a natural number x
I64Minus(x) ==
  WrappingAdd([i \in 1..I64_BYTES |-> 255 - FromNat(x, I64_BYTES)[i]],
              FromNat(1, I64_BYTES))

SecondsInputs ==
  {FromNat(x, I64_BYTES) : x \in {0, 1, 37, 100, 86400, 1700000000, 2147483647}}
    \cup {I64Minus(1), I64Minus(100), I64_MAX, I64_MIN,
          <<0, 0, 0, 0, 1, 0, 0, 0>>}

NanosInputs ==
  {FromNat(x, U32_BYTES) :
     x \in {0, 1, 123456789, 500000000, 999999999, 1000000000, 2147483647}}
    \cup {<<0, 0, 0, 128>>, <<255, 255, 255, 255>>}

(***************************************************************************)
(* State of the timestamp adapter: the device timestamp handed in and the  *)
(* time value returned.                                                    *)
(***************************************************************************)
VARIABLES ts, time

timeVars == <<ts, time>>

vars == <<heap, ports, ret, panicked, origin, stats, script,
          call, socket, kernel, attempts, result, ts, time>>

NoTime == [outcome |-> "unset", inner |-> <<>>]

TimeIdle ==
  /\ ts = [seconds |-> FromNat(0, I64_BYTES), nanos |-> FromNat(0, U32_BYTES)]
  /\ time = NoTime

TimeInit ==
  /\ ts \in [seconds : SecondsInputs, nanos : NanosInputs]
  /\ time = NoTime

Convert == \E checked \in BOOLEAN :
             /\ time = NoTime
             /\ time' = timestamp_to_time(ts, checked)
             /\ UNCHANGED ts

(***************************************************************************)
(* Specifications.                                                         *)
(***************************************************************************)
Init == TestDoubleInit /\ SockInit /\ TimeIdle

Next ==
  \/ Open /\ UNCHANGED <<sockVars, timeVars>>
  \/ Send /\ UNCHANGED <<sockVars, timeVars>>
  \/ GetSent /\ UNCHANGED <<sockVars, timeVars>>
  \/ Recv /\ UNCHANGED <<sockVars, timeVars>>

Spec == Init /\ [][Next]_vars

NextFill ==
  \/ FillOpen /\ UNCHANGED <<sockVars, timeVars>>
  \/ FillSend /\ UNCHANGED <<sockVars, timeVars>>
  \/ FillGetSent /\ UNCHANGED <<sockVars, timeVars>>

SpecFill == Init /\ [][NextFill]_vars

NextCap ==
  \/ FillOpen /\ UNCHANGED <<sockVars, timeVars>>
  \/ CapSend /\ UNCHANGED <<sockVars, timeVars>>
  \/ FillGetSent /\ UNCHANGED <<sockVars, timeVars>>

SpecCap == Init /\ [][NextCap]_vars

NextSock ==
  \/ Call /\ UNCHANGED <<tdVars, timeVars>>
  \/ OpenInterface /\ UNCHANGED <<tdVars, timeVars>>
  \/ JoinMulticast /\ UNCHANGED <<tdVars, timeVars>>

SpecSock == Init /\ [][NextSock]_vars

InitTime == TestDoubleInit /\ SockInit /\ TimeInit

NextTime == Convert /\ UNCHANGED <<tdVars, sockVars>>

SpecTime == InitTime /\ [][NextTime]_vars

(***************************************************************************)
(* Claims about the test double.                                           *)
(*                                                                         *)
(* A step whose next state has ret.op = "send" (or "open", "get_sent") and *)
(* that changes the state is a step of that operation: every operation     *)
(* writes its own name into ret.                                           *)
(***************************************************************************)

\* C1: every send returns Some(s) exactly when its port was opened with
\* time_critical = true, and None otherwise; when it returns Some(s), s is the
\* index of the record this send appended to the log.
C1_SendReturnsSomeIffTimeCritical ==
  ret.op = "send" =>
    LET port == ports[ret.port]
        returnsSome == ret.outcome = "ok" /\ IsSome(ret.value)
        returnsNone == ret.outcome = "ok" /\ ret.value = None
    IN
    /\ returnsSome <=> port.time_critical
    /\ ~port.time_critical => returnsNone
    /\ returnsSome =>
         /\ packet_buffer # <<>>
         /\ origin[Len(origin)] = ret.port
         /\ ret.value = Some(packet_buffer[Len(packet_buffer)].index)

\* What holds of every send that returns: the value is Some(index of the
\* record it appended) on a time-critical port and None on any other.
ReturnedSendMatchesFlag ==
  (ret.op = "send" /\ ret.outcome = "ok") =>
    /\ packet_buffer # <<>>
    /\ origin[Len(origin)] = ret.port
    /\ ret.value = IF ports[ret.port].time_critical
                     THEN Some(packet_buffer[Len(packet_buffer)].index)
                     ELSE None

\* C2: get_sent removes and returns the most recently appended record still
\* in the log, whichever port appended it, and returns None and changes
\* nothing when the log is empty; in the two-port scenario the three get_sent
\* calls return the record of port 2 (not time-critical, index 0), then the
\* record of port 1 (time-critical, index 0), then None.
C2_GetSentPopsLatest ==
  /\ [][ret'.op = "get_sent" =>
          /\ ret'.outcome = "ok"
          /\ UNCHANGED <<ports, panicked>>
          /\ IF packet_buffer = <<>>
               THEN ret'.value = None /\ UNCHANGED heap
               ELSE /\ ret'.value = Some(packet_buffer[Len(packet_buffer)])
                    /\ packet_buffer' =
                         SubSeq(packet_buffer, 1, Len(packet_buffer) - 1)]_vars
  /\ [](script = 5 =>
          /\ IsSome(ret.value)
          /\ ret.value[1].interface = ports[2].interface
          /\ ret.value[1].time_critical = FALSE
          /\ ret.value[1].index = 0)
  /\ [](script = 6 =>
          /\ IsSome(ret.value)
          /\ ret.value[1].interface = ports[1].interface
          /\ ret.value[1].time_critical = TRUE
          /\ ret.value[1].index = 0)
  /\ [](script = 7 => ret.op = "get_sent" /\ ret.value = None)

\* C2 witness: the scenario has run to its end, with two different
\* interfaces: two records popped, the third get_sent found the log empty.
C2_Witness ==
  /\ script = 7
  /\ ret.op = "get_sent"
  /\ ret.value = None
  /\ stats.pops = 2
  /\ ports[1].interface # ports[2].interface

\* C3: every send appends exactly one record: payload the sent bytes,
\* interface and time_critical those of the port, index the port's counter
\* before the call; the counter ends one higher; the k-th send of a port
\* (from 0) records index k.
C3_SendAppendsOneRecord ==
  [][ret'.op = "send" =>
       LET p == ret'.port IN
       /\ packet_buffer' =
            Append(packet_buffer,
                   TestNetworkPacket(ret'.data, ports[p].interface,
                                     ports[p].time_critical,
                                     ports[p].send_index))
       /\ ports'[p].send_index = ports[p].send_index + 1
       /\ ports[p].send_index = stats.by_port[p]]_vars

\* What holds of every send that returns: one record appended as C3 says,
\* the counter one higher.
ReturnedSendAppendsOneRecord ==
  [][(ret'.op = "send" /\ ret'.outcome = "ok") =>
       LET p == ret'.port IN
       /\ packet_buffer' =
            Append(packet_buffer,
                   TestNetworkPacket(ret'.data, ports[p].interface,
                                     ports[p].time_critical,
                                     ports[p].send_index))
       /\ ports'[p].send_index = ports[p].send_index + 1
       /\ ports[p].send_index = stats.by_port[p]]_vars

\* C4: open always returns Ok: the port carries the supplied interface and
\* flag, a counter of 0 of its own, and the runtime's log; open leaves the
\* log and the ports opened before (their counters too) unchanged.
C4_OpenAlwaysOk ==
  [][ret'.op = "open" =>
       LET new == ports'[Len(ports')] IN
       /\ ret'.outcome = "ok"
       /\ ret'.value = Some(new)
       /\ Len(ports') = Len(ports) + 1
       /\ new.interface = ret'.interface
       /\ new.time_critical = ret'.time_critical
       /\ new.send_index = 0
       /\ new.data = TestRuntime.data
       /\ \A q \in 1..Len(ports) : ports'[q] = ports[q]
       /\ UNCHANGED <<heap, panicked>>]_vars

\* C4 witness: a second port has just been opened on the interface of the
\* first, after the first has sent and its record is in the log.
C4_Witness ==
  /\ ret.op = "open"
  /\ Len(ports) = 2
  /\ ports[1].interface = ports[2].interface
  /\ ports[1].send_index = 2
  /\ ports[2].send_index = 0
  /\ Len(packet_buffer) = 2

\* C5: open and send never abort, whatever was sent before and however many
\* records are in the log.
C5_OpenAndSendNeverAbort ==
  ret.op \in {"open", "send"} => ret.outcome = "ok" /\ ~panicked

\* C6: a send of more than 255 bytes is truncated to 255 and recorded, or
\* rejected with nothing appended; it does not abort.
C6_OversizedSendTruncatesOrRejects ==
  [][(ret'.op = "send" /\ Len(ret'.data) > DATA_CAP) =>
       LET p == ret'.port
           truncated == TestNetworkPacket(SubSeq(ret'.data, 1, DATA_CAP),
                                          ports[p].interface,
                                          ports[p].time_critical,
                                          ports[p].send_index)
       IN
       /\ ~panicked'
       /\ \/ /\ packet_buffer' = Append(packet_buffer, truncated)
             /\ ports'[p].send_index = ports[p].send_index + 1
          \/ /\ packet_buffer' = packet_buffer
             /\ ports' = ports]_vars

\* A payload of exactly 255 bytes is recorded whole.
LongestPayloadFits ==
  [][(ret'.op = "send" /\ Len(ret'.data) = DATA_CAP
        /\ Len(packet_buffer) < PACKET_BUFFER_CAP) =>
       /\ ret'.outcome = "ok"
       /\ packet_buffer'[Len(packet_buffer')].data = ret'.data]_vars

(***************************************************************************)
(* Claims about the socket factory.                                        *)
(***************************************************************************)
\* the last call has returned
Returned == call.pc = "idle" /\ result.status # "none"

\* the body of the last call
LastBody == Body(call.fn, call.timestamping)

\* the collaborator calls the body of the last call makes when none fails
RequiredSteps ==
  <<<<LastBody.via, 0>>>> \o
    [k \in 1..Len(LastBody.joins) |-> <<"join_multicast", k>>]

\* the memberships the body of the last call asks for
RequiredGroups ==
  {[addr |-> LastBody.joins[k], interface |-> call.interface] :
     k \in 1..Len(LastBody.joins)}

\* C7: a socket-opening function stops at its first failing step and returns
\* that step's error; it returns a socket only when the open step and every
\* join of its body succeeded, and that socket has every membership.
C7_FirstFailureIsReturned ==
  /\ \A i \in 1..(Len(attempts) - 1) : attempts[i].ok
  /\ call.pc \in {"open", "join"} => \A i \in 1..Len(attempts) : attempts[i].ok
  /\ Returned =>
       /\ attempts # <<>>
       /\ result.status = "err" <=> ~attempts[Len(attempts)].ok
       /\ result.status = "err" =>
            /\ result.error = attempts[Len(attempts)].step
            /\ result.socket = 0
       /\ result.status = "ok" =>
            /\ Len(attempts) = Len(RequiredSteps)
            /\ \A i \in 1..Len(attempts) : attempts[i].ok
            /\ result.socket = Len(kernel)
            /\ kernel[result.socket].state = "open"
            /\ kernel[result.socket].groups = RequiredGroups

\* C7 witness: the second join failed after the open step and the first join
\* had succeeded, and its error was returned.
C7_Witness ==
  /\ Returned
  /\ result.status = "err"
  /\ result.error = <<"join_multicast", 2>>
  /\ Len(attempts) = 3
  /\ attempts[1].ok /\ attempts[2].ok

\* C8: when a call returns an error, the socket it opened (if any) has been
\* closed and holds no membership: nothing the call acquired is still held.
C8_NothingHeldAfterError ==
  (Returned /\ result.status = "err") =>
    /\ kernel[Len(kernel)].state # "open"
    /\ kernel[Len(kernel)].groups = {}
    /\ socket = None

\* C8 witness: the second join failed after the first had succeeded; the
\* socket this call opened is closed.
C8_Witness ==
  /\ Returned
  /\ result.error = <<"join_multicast", 2>>
  /\ attempts[2].ok
  /\ kernel[Len(kernel)].state = "closed"

\* the memberships of a socket opened on interface that joined addrs
Memberships(addrs, interface) ==
  {[addr |-> a, interface |-> interface] : a \in addrs}

\* the groups and the bound port or ethertype of each function, as the
\* claim lists them
ListedGroups(fn) ==
  CASE fn \in {"open_ipv4_event_socket", "open_ipv4_general_socket"} ->
         {SocketAddrV4(IPV4_PRIMARY_MULTICAST, 0),
          SocketAddrV4(IPV4_PDELAY_MULTICAST, 0)}
    [] fn \in {"open_ipv6_event_socket", "open_ipv6_general_socket"} ->
         {SocketAddrV6(IPV6_PRIMARY_MULTICAST, 0, 0, 0),
          SocketAddrV6(IPV6_PDELAY_MULTICAST, 0, 0, 0)}
    [] fn = "open_ethernet_socket" ->
         {EthernetAddress(35063, <<1, 27, 25, 0, 0, 0>>, 0),
          EthernetAddress(35063, <<1, 128, 194, 0, 0, 14>>, 0)}
    [] fn = "open_gptp_socket" ->
         {EthernetAddress(35063, <<1, 128, 194, 0, 0, 14>>, 0)}

ListedBound(fn) ==
  CASE fn \in {"open_ipv4_event_socket", "open_ipv6_event_socket"} -> 319
    [] fn \in {"open_ipv4_general_socket", "open_ipv6_general_socket"} -> 320
    [] fn \in {"open_ethernet_socket", "open_gptp_socket"} -> 35063

\* the sockets the callers hold: those a call returned
HeldSockets ==
  {i \in 1..Len(kernel) :
     kernel[i].state = "open" /\ (i < Len(kernel) \/ Returned)}

\* every socket returned has exactly the listed groups and the listed bound
\* port or ethertype
GroupsAsListed ==
  \A i \in HeldSockets :
    /\ kernel[i].groups = Memberships(ListedGroups(kernel[i].by),
                                      kernel[i].interface)
    /\ kernel[i].bound = ListedBound(kernel[i].by)

\* an IPv4 event socket and an IPv4 general socket on the same interface
EventAndGeneralPairs ==
  {<<i, j>> \in HeldSockets \X HeldSockets :
     /\ kernel[i].by = "open_ipv4_event_socket"
     /\ kernel[j].by = "open_ipv4_general_socket"
     /\ kernel[i].interface = kernel[j].interface}

\* C9 as stated: the groups are as listed, and an IPv4 event and an IPv4
\* general socket on the same interface join identical groups and differ
\* only in the bound port.
C9_GroupsAndOnlyPortDiffers ==
  /\ GroupsAsListed
  /\ \A pair \in EventAndGeneralPairs :
       LET e == kernel[pair[1]]
           g == kernel[pair[2]]
       IN
       /\ e.groups = g.groups
       /\ e.bound # g.bound
       /\ [e EXCEPT !.bound = 0, !.by = ""] = [g EXCEPT !.bound = 0, !.by = ""]

\* C9 as amended: the groups are as listed, and an IPv4 event and an IPv4
\* general socket on the same interface join identical groups and differ
\* only in the bound port and in the timestamp mode, which is the caller's
\* for the event socket and None for the general socket.
C9_GroupsAndPortAndModeDiffer ==
  /\ GroupsAsListed
  /\ \A pair \in EventAndGeneralPairs :
       LET e == kernel[pair[1]]
           g == kernel[pair[2]]
       IN
       /\ e.groups = g.groups
       /\ e.bound = 319 /\ g.bound = 320
       /\ g.mode = "None"
       /\ [e EXCEPT !.bound = 0, !.by = "", !.mode = ""] =
            [g EXCEPT !.bound = 0, !.by = "", !.mode = ""]

\* C9 witness: an IPv4 event socket opened with hardware timestamping and an
\* IPv4 general socket are held on the same interface, each with both groups.
C9_Witness ==
  \E pair \in EventAndGeneralPairs :
    /\ kernel[pair[1]].mode = "HardwareAll"
    /\ Cardinality(kernel[pair[1]].groups) = 2
    /\ Cardinality(kernel[pair[2]].groups) = 2

(***************************************************************************)
(* Claims about the timestamp adapter.                                     *)
(***************************************************************************)
\* the device timestamp (seconds, nanos) of two small natural numbers
Timestamp(seconds, nanos) ==
  [seconds |-> FromNat(seconds, I64_BYTES), nanos |-> FromNat(nanos, U32_BYTES)]

\* 100,000,000,000 = 0x17 4876 E800
HundredSeconds == <<0, 232, 118, 72, 23, 0, 0, 0, 0, 0, 0, 0>>

\* C10: timestamp_to_time is total and exact: for every device timestamp the
\* result is seconds * 1,000,000,000 + nanos, with no overflow or wrap-around
\* in the i128 intermediate, and the sum fits a signed integer of 96 bits;
\* (1, 500000000) gives 1500000000, (0, 0) gives 0, (100, 0) gives
\* 100000000000.
C10_TimestampToTimeExact ==
  time # NoTime =>
    /\ time.outcome = "ok"
    /\ ~Overflows(ts)
    /\ FitsSigned(ExactNanos(ts), TIME_INT_BYTES)
    /\ SignExtend(time.inner, WIDE_BYTES) = ExactNanos(ts)
    /\ ts = Timestamp(1, 500000000) =>
         time.inner = FromNat(1500000000, TIME_INT_BYTES)
    /\ ts = Timestamp(0, 0) => time.inner = FromNat(0, TIME_INT_BYTES)
    /\ ts = Timestamp(100, 0) => time.inner = HundredSeconds

\* C10 witness: the smallest seconds with the largest nanos has been
\* converted.
C10_Witness ==
  /\ time # NoTime
  /\ time.outcome = "ok"
  /\ ts.seconds = I64_MIN
  /\ ts.nanos = <<255, 255, 255, 255>>

(***************************************************************************)
(* Claims about the address table. The claims write addresses in           *)
(* hexadecimal; the values below are computed from their digits.           *)
(***************************************************************************)
Hex2(a, b) == a * 16 + b
Hex4(a, b, c, d) == Hex2(a, b) * 256 + Hex2(c, d)

\* 01:80:C2:00:00:0E and 01:1B:19:00:00:00
ClaimedPdelayMac == <<Hex2(0, 1), Hex2(8, 0), Hex2(12, 2), 0, 0, Hex2(0, 14)>>
ClaimedPrimaryMac == <<Hex2(0, 1), Hex2(1, 11), Hex2(1, 9), 0, 0, 0>>

\* 0x88F7
ClaimedEthertype == Hex4(8, 8, 15, 7)

\* addr is the MAC mac with the ethertype of the claims
IsMacGroup(addr, mac) == addr.mac = mac /\ addr.protocol = ClaimedEthertype

\* the sockets of function fn the callers hold
HeldBy(fn) == {i \in HeldSockets : kernel[i].by = fn}

\* C11: the four gPTP addresses are one address, the MAC 01:80:C2:00:00:0E
\* with ethertype 0x88F7; it is the 1588 profile's pdelay address too, and
\* it is the one group a gPTP socket joins and a returned gPTP socket is a
\* member of.
C11_GptpSingleAddress ==
  /\ \A a \in {Gptp_PRIMARY_EVENT, Gptp_PRIMARY_GENERAL,
               Gptp_PDELAY_EVENT, Gptp_PDELAY_GENERAL} :
       /\ a = Gptp_PRIMARY_EVENT
       /\ IsMacGroup(a, ClaimedPdelayMac)
       /\ a = Ieee1588_PDELAY_EVENT
  /\ \A i \in 1..Len(kernel) :
       kernel[i].by = "open_gptp_socket" =>
         \A g \in kernel[i].groups :
           /\ g.addr = Gptp_PRIMARY_EVENT
           /\ IsMacGroup(g.addr, ClaimedPdelayMac)
  /\ \A i \in HeldBy("open_gptp_socket") :
       kernel[i].groups = Memberships({Gptp_PDELAY_GENERAL},
                                      kernel[i].interface)

\* C11 witness: a gPTP socket was returned, a member of the one group, next
\* to a 1588 Ethernet socket that is a member of the same group.
C11_Witness ==
  /\ HeldBy("open_gptp_socket") # {}
  /\ \E i \in HeldBy("open_gptp_socket"), j \in HeldBy("open_ethernet_socket") :
       /\ Cardinality(kernel[i].groups) = 1
       /\ \E g \in kernel[i].groups, h \in kernel[j].groups : g.addr = h.addr

\* C12: in the 1588 Ethernet profile primary-event = primary-general is the
\* MAC 01:1B:19:00:00:00, pdelay-event = pdelay-general is the MAC
\* 01:80:C2:00:00:0E, the two pairs differ, and all four have ethertype
\* 0x88F7; a returned 1588 Ethernet socket is a member of both, two groups.
C12_Ieee1588TwoAddresses ==
  /\ Ieee1588_PRIMARY_EVENT = Ieee1588_PRIMARY_GENERAL
  /\ Ieee1588_PDELAY_EVENT = Ieee1588_PDELAY_GENERAL
  /\ Ieee1588_PRIMARY_EVENT # Ieee1588_PDELAY_EVENT
  /\ Ieee1588_PRIMARY_GENERAL # Ieee1588_PDELAY_GENERAL
  /\ IsMacGroup(Ieee1588_PRIMARY_EVENT, ClaimedPrimaryMac)
  /\ IsMacGroup(Ieee1588_PRIMARY_GENERAL, ClaimedPrimaryMac)
  /\ IsMacGroup(Ieee1588_PDELAY_EVENT, ClaimedPdelayMac)
  /\ IsMacGroup(Ieee1588_PDELAY_GENERAL, ClaimedPdelayMac)
  /\ \A i \in HeldBy("open_ethernet_socket") :
       /\ kernel[i].groups =
            Memberships({Ieee1588_PRIMARY_GENERAL, Ieee1588_PDELAY_GENERAL},
                        kernel[i].interface)
       /\ Cardinality(kernel[i].groups) = 2

\* C12 witness: a 1588 Ethernet socket was returned, a member of a group with
\* the primary MAC and of a group with the pdelay MAC.
C12_Witness ==
  \E i \in HeldBy("open_ethernet_socket") :
    \E g \in kernel[i].groups, h \in kernel[i].groups :
      /\ g.addr.mac = ClaimedPrimaryMac
      /\ h.addr.mac = ClaimedPdelayMac

\* 224.0.1.129, 224.0.0.107, ff0e::181, ff02::6b
ClaimedV4Primary == <<224, 0, 1, 129>>
ClaimedV4Pdelay == <<224, 0, 0, 107>>
ClaimedV6Primary == <<Hex4(15, 15, 0, 14), 0, 0, 0, 0, 0, 0, Hex4(0, 1, 8, 1)>>
ClaimedV6Pdelay == <<Hex4(15, 15, 0, 2), 0, 0, 0, 0, 0, 0, Hex4(0, 0, 6, 11)>>

\* event and general are the address ip, and differ in the port only: 319
\* for event, 320 for general
EventGeneralPair(event, general, ip) ==
  /\ event.ip = ip
  /\ general.ip = ip
  /\ event.port = 319
  /\ general.port = 320
  /\ [event EXCEPT !.port = 320] = general

\* the network addresses of the groups socket i is a member of
GroupIps(i) == {g.addr.ip : g \in kernel[i].groups}

\* C13: for IPv4 and for IPv6, the event and the general address of the
\* primary group are the same network address and differ only in the port
\* (319 and 320), and so for the pdelay group; the network addresses are
\* 224.0.1.129 / 224.0.0.107 and ff0e::181 / ff02::6b. The returned IP
\* sockets are bound to these ports and are members of these groups.
C13_IpEventGeneralDifferInPort ==
  /\ EventGeneralPair(V4_PRIMARY_EVENT, V4_PRIMARY_GENERAL, ClaimedV4Primary)
  /\ EventGeneralPair(V4_PDELAY_EVENT, V4_PDELAY_GENERAL, ClaimedV4Pdelay)
  /\ EventGeneralPair(V6_PRIMARY_EVENT, V6_PRIMARY_GENERAL, ClaimedV6Primary)
  /\ EventGeneralPair(V6_PDELAY_EVENT, V6_PDELAY_GENERAL, ClaimedV6Pdelay)
  /\ \A i \in HeldBy("open_ipv4_event_socket") :
       /\ kernel[i].bound = V4_PRIMARY_EVENT.port
       /\ GroupIps(i) = {V4_PRIMARY_EVENT.ip, V4_PDELAY_EVENT.ip}
  /\ \A i \in HeldBy("open_ipv4_general_socket") :
       /\ kernel[i].bound = V4_PRIMARY_GENERAL.port
       /\ GroupIps(i) = {V4_PRIMARY_GENERAL.ip, V4_PDELAY_GENERAL.ip}
  /\ \A i \in HeldBy("open_ipv6_event_socket") :
       /\ kernel[i].bound = V6_PRIMARY_EVENT.port
       /\ GroupIps(i) = {V6_PRIMARY_EVENT.ip, V6_PDELAY_EVENT.ip}
  /\ \A i \in HeldBy("open_ipv6_general_socket") :
       /\ kernel[i].bound = V6_PRIMARY_GENERAL.port
       /\ GroupIps(i) = {V6_PRIMARY_GENERAL.ip, V6_PDELAY_GENERAL.ip}

\* C13 witness: an IPv6 event socket and an IPv6 general socket were
\* returned, members of the same two groups, bound to 319 and to 320.
C13_Witness ==
  \E i \in HeldBy("open_ipv6_event_socket"),
     j \in HeldBy("open_ipv6_general_socket") :
    /\ GroupIps(i) = {ClaimedV6Primary, ClaimedV6Pdelay}
    /\ GroupIps(j) = GroupIps(i)
    /\ kernel[i].bound = 319
    /\ kernel[j].bound = 320

\* the functions of the claims, by kind
GeneralFunctions == {"open_ipv4_general_socket", "open_ipv6_general_socket"}
EventFunctions == {"open_ipv4_event_socket", "open_ipv6_event_socket"}
EthernetFunctions == {"open_ethernet_socket", "open_gptp_socket"}

\* the sockets some open step has created, held or not
CreatedSockets == {i \in 1..Len(kernel) : kernel[i].state # "absent"}

\* C14: a general socket (IPv4, IPv6) is opened with timestamp mode None,
\* whatever modes the caller asks of its other sockets; an event socket or
\* an Ethernet socket (1588, gPTP) is opened with the mode its caller passed.
C14_GeneralNoneOthersAsAsked ==
  /\ \A i \in CreatedSockets :
       kernel[i].by \in GeneralFunctions => kernel[i].mode = "None"
  /\ call.fn \in GeneralFunctions => LastBody.mode = "None"
  /\ call.fn \in EventFunctions \cup EthernetFunctions =>
       /\ LastBody.mode = call.timestamping
       /\ Len(kernel) \in CreatedSockets =>
            kernel[Len(kernel)].mode = call.timestamping

\* C14 witness: an event socket opened with HardwareAll is held, and the
\* general socket of the same transport and interface was just opened, with
\* None.
C14_Witness ==
  /\ call.fn = "open_ipv6_general_socket"
  /\ Len(kernel) \in CreatedSockets
  /\ kernel[Len(kernel)].mode = "None"
  /\ \E i \in HeldBy("open_ipv6_event_socket") :
       /\ kernel[i].mode = "HardwareAll"
       /\ kernel[i].interface = call.interface

(***************************************************************************)
(* Claims about the test double, continued.                                *)
(***************************************************************************)
\* C15: recv can be called in every state of a running test double, and the
\* call aborts: it returns no packet and no error value, and it is no silent
\* no-op, nothing runs after it.
C15_RecvAborts ==
  /\ ~panicked => ENABLED recv
  /\ ret.op = "recv" =>
       /\ ret.outcome = "panic"
       /\ ret.value = None
       /\ panicked
       /\ ~ENABLED Next

\* C15 witness: recv was called, and aborted, with two ports open and two
\* records in the log.
C15_Witness ==
  /\ ret.op = "recv"
  /\ panicked
  /\ Len(ports) = 2
  /\ Len(packet_buffer) = 2

(***************************************************************************)
(* Claims about the socket factory, continued.                             *)
(***************************************************************************)
\* the primary and the pdelay group of the transport of function fn, as the
\* functions pass them to join_multicast (the IP ones with port 0)
PrimaryGroup(fn) ==
  CASE fn \in {"open_ipv4_event_socket", "open_ipv4_general_socket"} ->
         SocketAddrV4(ClaimedV4Primary, 0)
    [] fn \in {"open_ipv6_event_socket", "open_ipv6_general_socket"} ->
         SocketAddrV6(ClaimedV6Primary, 0, 0, 0)
    [] fn = "open_ethernet_socket" ->
         EthernetAddress(ClaimedEthertype, ClaimedPrimaryMac, 0)
    [] fn = "open_gptp_socket" ->
         EthernetAddress(ClaimedEthertype, ClaimedPdelayMac, 0)

PdelayGroup(fn) ==
  CASE fn \in {"open_ipv4_event_socket", "open_ipv4_general_socket"} ->
         SocketAddrV4(ClaimedV4Pdelay, 0)
    [] fn \in {"open_ipv6_event_socket", "open_ipv6_general_socket"} ->
         SocketAddrV6(ClaimedV6Pdelay, 0, 0, 0)
    [] fn \in {"open_ethernet_socket", "open_gptp_socket"} ->
         EthernetAddress(ClaimedEthertype, ClaimedPdelayMac, 0)

\* the groups the first n joins of function fn ask for, in the order of the
\* claim: primary, then pdelay
FirstJoins(fn, n) ==
  IF n = 0 THEN {}
  ELSE IF n = 1 THEN {PrimaryGroup(fn)}
  ELSE {PrimaryGroup(fn), PdelayGroup(fn)}

\* the joins of the running or last call that were made and succeeded
JoinsDone == Cardinality({i \in 2..Len(attempts) : attempts[i].ok})

\* C16: the collaborator calls one call has made are the beginning of the
\* list open/bind, primary join, pdelay join (the gPTP socket: open/bind and
\* its one join), each made once and in that order; a call that failed was
\* the last one, and the function has returned.
C16_NoRetryFixedOrder ==
  call.fn # "" =>
    /\ Len(attempts) <= Len(RequiredSteps)
    /\ \A i \in 1..Len(attempts) : attempts[i].step = RequiredSteps[i]
    /\ \A i \in 1..Len(attempts) :
         ~attempts[i].ok => (i = Len(attempts) /\ call.pc = "idle")
    /\ call.pc = "open" <=> attempts = <<>>
    /\ kernel[Len(kernel)].state = "open" =>
         kernel[Len(kernel)].groups =
           Memberships(FirstJoins(call.fn, JoinsDone), call.interface)

\* C16 witness: after a call that made its three steps and returned a
\* socket, a call has returned the error of its primary join: two steps
\* made, the pdelay join not attempted.
C16_Witness ==
  /\ Returned
  /\ Len(kernel) = 2
  /\ kernel[1].state = "open"
  /\ Cardinality(kernel[1].groups) = 2
  /\ Len(RequiredSteps) = 3
  /\ Len(attempts) = 2
  /\ result.error = <<"join_multicast", 1>>

\* the positions in the log of the records port p appended
RecordsOf(p) == {i \in 1..Len(origin) : origin[i] = p}

\* C17: get_sent leaves every port (its counter too) and everything but the
\* log unchanged, and the log only loses its last record; so the counter of
\* a port of a running test double is the number of sends made on it, and a
\* send that records a packet records that number as its index, however
\* many of the port's records are still in the log.
C17_GetSentLeavesCounters ==
  /\ [][ret'.op = "get_sent" =>
          /\ UNCHANGED <<ports, panicked>>
          /\ \A i \in 1..Len(packet_buffer') :
               packet_buffer'[i] = packet_buffer[i]
          /\ Len(packet_buffer') \in
               {Len(packet_buffer), Len(packet_buffer) - 1}]_vars
  /\ [](~panicked =>
          \A p \in 1..Len(ports) : ports[p].send_index = stats.by_port[p])
  /\ [][(ret'.op = "send" /\ Len(packet_buffer') > Len(packet_buffer)) =>
          packet_buffer'[Len(packet_buffer')].index =
            stats.by_port[ret'.port]]_vars

\* C17 witness: port 1 sent, its record was popped, and it sent again: the
\* new record has index 1 and is the only record of port 1 in the log.
C17_Witness ==
  /\ ret.op = "send"
  /\ ret.outcome = "ok"
  /\ ret.port = 1
  /\ stats.pops = 1
  /\ RecordsOf(1) = {Len(packet_buffer)}
  /\ packet_buffer[Len(packet_buffer)].index = 1

\* C18: a send on a port leaves the counter, the interface and the flag of
\* every other port as they were, and every record already in the log,
\* content and position; what it adds to the log is one record, on top (a
\* send that returns adds it; a send that aborts adds none).
C18_SendLeavesOthers ==
  [][ret'.op = "send" =>
       /\ Len(ports') = Len(ports)
       /\ \A q \in 1..Len(ports) : q # ret'.port => ports'[q] = ports[q]
       /\ \A i \in 1..Len(packet_buffer) : packet_buffer'[i] = packet_buffer[i]
       /\ \A i \in 1..Len(origin) : origin'[i] = origin[i]
       /\ Len(packet_buffer') =
            Len(packet_buffer) + (IF ret'.outcome = "ok" THEN 1 ELSE 0)
       /\ ret'.outcome = "ok" => origin'[Len(packet_buffer')] = ret'.port]_vars

\* C18 witness: port 2 has just sent, on top of a record of port 1; port 1
\* still has the counter 1 of its one send.
C18_Witness ==
  /\ ret.op = "send"
  /\ ret.outcome = "ok"
  /\ ret.port = 2
  /\ origin = <<1, 2>>
  /\ ports[1].send_index = 1
  /\ ports[2].send_index = 1
  /\ ports[1].interface # ports[2].interface

\* C19: the records of the log that one port appended have indexes that
\* strictly increase from the oldest to the newest (so they are pairwise
\* distinct), each smaller than the port's counter.
C19_IndexesIncreasePerPort ==
  /\ Len(origin) = Len(packet_buffer)
  /\ \A p \in 1..Len(ports) :
       /\ \A i \in RecordsOf(p), j \in RecordsOf(p) :
            i < j => packet_buffer[i].index < packet_buffer[j].index
       /\ \A i \in RecordsOf(p) :
            packet_buffer[i].index < ports[p].send_index

\* C19 witness: the log holds two records of port 1, with indexes 0 and 2
\* (the record with index 1 was popped); the counter of port 1 is 3.
C19_Witness ==
  /\ origin = <<1, 1>>
  /\ packet_buffer[1].index = 0
  /\ packet_buffer[2].index = 2
  /\ ports[1].send_index = 3

\* C20: the log holds at most 255 records, every record's payload at most
\* 255 bytes, and the number of records is the number of completed sends
\* minus the number of get_sent calls that returned a record.
C20_LogAndPayloadBounded ==
  /\ Len(packet_buffer) <= 255
  /\ \A i \in 1..Len(packet_buffer) : Len(packet_buffer[i].data) <= 255
  /\ Len(packet_buffer) = stats.sends - stats.pops

\* C20 witness: the log is full, 255 records, its newest record has a
\* payload of 255 bytes, and a record was popped on the way.
C20_Witness ==
  /\ Len(packet_buffer) = 255
  /\ Len(packet_buffer[255].data) = 255
  /\ stats.pops >= 1
  /\ stats.sends = 255 + stats.pops

====
